---- MODULE Spec2Model ----
(***************************************************************************)
(* AnonForum (src/anon_forum.py): the four tables of the SQLite store and  *)
(* the request handlers /signin, /signout, /post, /comment, /vote and      *)
(* /posts that read and write them.                                        *)
(*                                                                         *)
(* Representation.                                                         *)
(*  - A text is a sequence of runs [ch, n] (n copies of character ch), no  *)
(*    two adjacent runs with the same character; "" is <<>>.  The limits   *)
(*    30, 200, 1000 and 4000 of the handlers keep their values.            *)
(*  - An optional value (a JSON field that may be absent, a nullable       *)
(*    column) is <<>> when absent/NULL and <<v>> when present.  Text       *)
(*    fields of a request are texts, numeric fields are integers.          *)
(*  - created_at is the reading of the UTC clock `now`; isoformat() strings *)
(*    of one width compare as the instants they denote.                    *)
(*  - A voter identity is a record [kind, v]: a session token, a remote    *)
(*    address, or the literal 'anonymous'.                                 *)
(*  - Rows whose ORDER BY keys are equal come back in any order.           *)
(*                                                                         *)
(* Specifications.                                                         *)
(*  - Spec: every handler, each request served alone, on accepted and      *)
(*    rejected inputs; at most MaxWrites rows are written.                 *)
(*  - SpecList: posting, commenting and listing while the clock runs.      *)
(*  - SpecConc: /vote requests served statement by statement on separate   *)
(*    connections, under the database write lock.                          *)
(***************************************************************************)
EXTENDS Integers, Sequences, FiniteSets, TLC

VARIABLES
    users,      \* table users: sequence, row i has id i (AUTOINCREMENT, no DELETE)
    posts,      \* table posts: sequence, row i has id i
    comments,   \* table comments: sequence, row i has id i
    votes,      \* table votes: set of rows [id, user_anon, target_type, target_id, value]
    voteSeq,    \* sqlite_sequence entry of votes: the largest id ever used
    session,    \* per browser: the session cookie's anon_id, <<>> when none
    now,        \* the UTC clock read by datetime.utcnow()
    resp,       \* the response to the last request: its status, and the JSON of /posts
    tx,         \* per connection: the /vote request it is serving and its private view
    lock        \* the connection holding the database write lock, 0 when free

vars == <<users, posts, comments, votes, voteSeq, session, now, resp, tx, lock>>

-----------------------------------------------------------------------------
(* Bounds of the model *)

MaxWrites == 3
MaxTime == 1

(* Program constants *)

NameMax == 30
TitleMax == 200
BodyMax == 4000
CommentMax == 1000

Clients == {1}
Conns == {1, 2}
Tokens == {"tokA", "tokB"}
Addrs == {"10.0.0.1"}

-----------------------------------------------------------------------------
(* Texts *)

WS == {" ", "\n"}

Rep(ch, n) == <<[ch |-> ch, n |-> n]>>

RECURSIVE LStrip(_)
LStrip(s) ==
    IF s = <<>> THEN <<>>
    ELSE IF Head(s).ch \in WS THEN LStrip(Tail(s)) ELSE s

RECURSIVE RStrip(_)
RStrip(s) ==
    IF s = <<>> THEN <<>>
    ELSE IF s[Len(s)].ch \in WS THEN RStrip(SubSeq(s, 1, Len(s) - 1)) ELSE s

\* str.strip()
Strip(s) == RStrip(LStrip(s))

\* s[:k]
RECURSIVE Truncate(_, _)
Truncate(s, k) ==
    IF s = <<>> \/ k <= 0 THEN <<>>
    ELSE IF Head(s).n <= k
         THEN <<Head(s)>> \o Truncate(Tail(s), k - Head(s).n)
         ELSE <<[ch |-> Head(s).ch, n |-> k]>>

\* (data.get(key) or '')
StrOrEmpty(j) == IF j = <<>> THEN <<>> ELSE j[1]

\* int(data.get(key) or 0)
IntOrZero(j) == IF j = <<>> THEN 0 ELSE j[1]

\* cut first, then strip
CleanCutFirst(j, k) == Strip(Truncate(StrOrEmpty(j), k))

\* (data.get(key) or '').strip()[:k]
Clean(j, k) == Truncate(Strip(StrOrEmpty(j)), k)

-----------------------------------------------------------------------------
(* Identities *)

Token(t) == [kind |-> "token", v |-> t]
Addr(a) == [kind |-> "addr", v |-> a]
Anonymous == [kind |-> "literal", v |-> "anonymous"]

\* current_user(): the users row of the session's anon_id, <<>> when none
current_user(c) ==
    IF session[c] = <<>> THEN <<>>
    ELSE LET hit == {i \in 1..Len(users) : users[i].anon_id = session[c][1]}
         IN IF hit = {} THEN <<>> ELSE <<users[CHOOSE i \in hit : TRUE]>>

\* user['id'] if user else None
UserIdOf(u) == IF u = <<>> THEN <<>> ELSE <<u[1].id>>

\* session.get('anon_id') or request.remote_addr or 'anonymous'
VoterIdentity(c, addr) ==
    IF session[c] # <<>> THEN Token(session[c][1])
    ELSE IF addr # <<>> THEN Addr(addr[1])
    ELSE Anonymous

-----------------------------------------------------------------------------
(* Statements *)

\* a plain INSERT with no uniqueness constraint: the row in conflict stays
InsertVote(vs, seq, anon, tt, id, v) ==
    vs \cup {[id |-> seq + 1, user_anon |-> anon, target_type |-> tt,
              target_id |-> id, value |-> v]}

\* INSERT OR REPLACE INTO votes: the row in conflict on
\* UNIQUE(user_anon, target_type, target_id) is deleted, the new row gets the next id
UpsertVote(vs, seq, anon, tt, id, v) ==
    {r \in vs : ~(r.user_anon = anon /\ r.target_type = tt /\ r.target_id = id)}
      \cup {[id |-> seq + 1, user_anon |-> anon, target_type |-> tt,
             target_id |-> id, value |-> v]}

RECURSIVE SumValues(_)
SumValues(rows) ==
    IF rows = {} THEN 0
    ELSE LET r == CHOOSE r \in rows : TRUE IN r.value + SumValues(rows \ {r})

\* SELECT SUM(value) FROM votes WHERE target_type=? AND target_id=? (NULL read as 0)
SumVotes(vs, tt, id) ==
    SumValues({r \in vs : r.target_type = tt /\ r.target_id = id})

\* the UPDATE without its WHERE clause
SetScoreEverywhere(ps, id, s) == [i \in 1..Len(ps) |-> [ps[i] EXCEPT !.score = s]]

\* UPDATE posts SET score = ? WHERE id = ?
SetScore(ps, id, s) ==
    [i \in 1..Len(ps) |-> IF ps[i].id = id THEN [ps[i] EXCEPT !.score = s] ELSE ps[i]]

-----------------------------------------------------------------------------
Idle == [pc |-> "idle"]

Init ==
    /\ users = <<>>
    /\ posts = <<>>
    /\ comments = <<>>
    /\ votes = {}
    /\ voteSeq = 0
    /\ session = [c \in Clients |-> <<>>]
    /\ now = 0
    /\ resp = [op |-> "none", status |-> 0]
    /\ tx = [k \in Conns |-> Idle]
    /\ lock = 0

\* the clock advances between requests
Tick ==
    /\ now < MaxTime
    /\ now' = now + 1
    /\ UNCHANGED <<users, posts, comments, votes, voteSeq, session, resp, tx, lock>>

-----------------------------------------------------------------------------
(* Request inputs *)

NameInputs ==
    { <<>>,
      << Rep(" ", 2) >>,
      << Rep("\n", 1) \o Rep("g", NameMax - 1) \o Rep(" ", 1) \o Rep("h", 2) >> }

TitleInputs ==
    { <<>>,
      << Rep("\n", 1) \o Rep(" ", 3) >>,
      << Rep(" ", 2) \o Rep("H", 5) \o Rep(" ", 1) >>,
      << Rep("t", TitleMax - 1) \o Rep(" ", 1) \o Rep("u", 2) >> }

BodyInputs ==
    { <<>>,
      << Rep(" ", 1) >>,
      << Rep(" ", 1) \o Rep("W", BodyMax) \o Rep("x", 1) >> }

CommentInputs ==
    { <<>>,
      << Rep(" ", 2) >>,
      << Rep(" ", 1) \o Rep("m", CommentMax + 1) >> }

PostIdInputs == {<<>>, <<-1>>, <<0>>, <<1>>}

TargetTypeInputs == {<<>>, <<"post">>, <<"comment">>, <<"user">>}
TargetIdInputs == {<<>>, <<-1>>, <<0>>, <<1>>, <<2>>}
ValueInputs == {<<>>, <<-1>>, <<0>>, <<1>>, <<2>>}

\* /vote payloads <<target_type, target_id, value>>: the acceptable ones, and
\* those with one field wrong, or all three
VoteInputs ==
    LET okT == {<<"post">>, <<"comment">>}
        okI == {<<1>>, <<2>>}
        okV == {<<-1>>, <<1>>}
    IN  (okT \X okI \X okV)
          \cup ((TargetTypeInputs \ okT) \X okI \X okV)
          \cup (okT \X (TargetIdInputs \ okI) \X okV)
          \cup (okT \X okI \X (ValueInputs \ okV))
          \cup {<< <<"user">>, <<0>>, <<2>> >>, << <<>>, <<>>, <<>> >>}
AddrInputs == {<<>>} \cup {<<a>> : a \in Addrs}

-----------------------------------------------------------------------------
(* Handlers *)

\* POST /signin
signin(c, nameJ, tok) ==
    LET name == Clean(nameJ, NameMax)
    IN  /\ IF name = <<>>
           THEN /\ resp' = [op |-> "signin", status |-> 400]
                /\ UNCHANGED <<users, session>>
           ELSE IF lock # 0 \/ \E i \in 1..Len(users) : users[i].anon_id = tok
           THEN \* the INSERT raises: UNIQUE(anon_id), or the database is locked
                /\ resp' = [op |-> "signin", status |-> 500]
                /\ UNCHANGED <<users, session>>
           ELSE /\ users' = Append(users, [id |-> Len(users) + 1, display_name |-> name,
                                           anon_id |-> tok, created_at |-> now])
                /\ session' = [session EXCEPT ![c] = <<tok>>]
                /\ resp' = [op |-> "signin", status |-> 204]
        /\ UNCHANGED <<posts, comments, votes, voteSeq, now, tx, lock>>

\* POST /signout
signout(c) ==
    /\ session' = [session EXCEPT ![c] = <<>>]
    /\ resp' = [op |-> "signout", status |-> 302]
    /\ UNCHANGED <<users, posts, comments, votes, voteSeq, now, tx, lock>>

\* POST /post
create_post(c, titleJ, bodyJ) ==
    LET user == current_user(c)
        title == Clean(titleJ, TitleMax)
        body == Clean(bodyJ, BodyMax)
    IN  /\ IF title = <<>> \/ body = <<>>
           THEN /\ resp' = [op |-> "post", status |-> 400]
                /\ UNCHANGED posts
           ELSE IF lock # 0
           THEN \* the INSERT raises: the database is locked
                /\ resp' = [op |-> "post", status |-> 500]
                /\ UNCHANGED posts
           ELSE /\ posts' = Append(posts, [id |-> Len(posts) + 1, user_id |-> UserIdOf(user),
                                           title |-> title, body |-> body, score |-> 0,
                                           created_at |-> now])
                /\ resp' = [op |-> "post", status |-> 204]
        /\ UNCHANGED <<users, comments, votes, voteSeq, session, now, tx, lock>>

\* POST /comment
create_comment(c, postIdJ, bodyJ) ==
    LET user == current_user(c)
        post_id == IntOrZero(postIdJ)
        body == Clean(bodyJ, CommentMax)
    IN  /\ IF post_id = 0 \/ body = <<>>
           THEN /\ resp' = [op |-> "comment", status |-> 400]
                /\ UNCHANGED comments
           ELSE IF lock # 0
           THEN /\ resp' = [op |-> "comment", status |-> 500]
                /\ UNCHANGED comments
           ELSE /\ comments' = Append(comments, [id |-> Len(comments) + 1, post_id |-> post_id,
                                                 user_id |-> UserIdOf(user), body |-> body,
                                                 created_at |-> now])
                /\ resp' = [op |-> "comment", status |-> 204]
        /\ UNCHANGED <<users, posts, votes, voteSeq, session, now, tx, lock>>

\* the test without its check of value
VoteValidAnyValue(tt, id, v) ==
    /\ tt \in {<<"post">>, <<"comment">>}
    /\ ~(id <= 0)

\* the test of line 424: target_type, target_id and value are acceptable
VoteValid(tt, id, v) ==
    /\ tt \in {<<"post">>, <<"comment">>}
    /\ ~(id <= 0)
    /\ v \in {-1, 1}

\* POST /vote, served alone: upsert, recalculation and commit
vote(c, addr, ttJ, idJ, vJ) ==
    LET anon == VoterIdentity(c, addr)
        target_id == IntOrZero(idJ)
        value == IntOrZero(vJ)
    IN  /\ IF ~VoteValid(ttJ, target_id, value)
           THEN /\ resp' = [op |-> "vote", status |-> 400]
                /\ UNCHANGED <<posts, votes, voteSeq>>
           ELSE IF lock # 0
           THEN \* caught by the except clause
                /\ resp' = [op |-> "vote", status |-> 500]
                /\ UNCHANGED <<posts, votes, voteSeq>>
           ELSE LET vs == UpsertVote(votes, voteSeq, anon, ttJ[1], target_id, value)
                IN  /\ votes' = vs
                    /\ voteSeq' = voteSeq + 1
                    /\ posts' = IF ttJ[1] = "post"
                                THEN SetScore(posts, target_id, SumVotes(vs, ttJ[1], target_id))
                                ELSE posts
                    /\ resp' = [op |-> "vote", status |-> 204]
        /\ UNCHANGED <<users, comments, session, now, tx, lock>>

-----------------------------------------------------------------------------
(* GET /posts *)

\* the sequences holding each element of S once
SeqsOf(S) ==
    {s \in [1..Cardinality(S) -> S] : \A i, j \in 1..Cardinality(S) : i # j => s[i] # s[j]}

\* LEFT JOIN users u ON x.user_id = u.id
JoinDisplayName(user_id) ==
    IF user_id # <<>> /\ user_id[1] \in 1..Len(users)
    THEN <<users[user_id[1]].display_name>>
    ELSE <<>>

\* ... ORDER BY p.created_at DESC: no row precedes one that sorts before it;
\* rows of equal created_at come in any order
PostOrders ==
    {s \in SeqsOf(1..Len(posts)) :
        \A i, j \in 1..Len(s) : i < j => posts[s[i]].created_at >= posts[s[j]].created_at}

\* ... WHERE c.post_id = ? ORDER BY c.created_at ASC
CommentOrders(pid) ==
    {s \in SeqsOf({i \in 1..Len(comments) : comments[i].post_id = pid}) :
        \A i, j \in 1..Len(s) : i < j => comments[s[i]].created_at <= comments[s[j]].created_at}

CommentView(i) ==
    [id |-> comments[i].id, post_id |-> comments[i].post_id, user_id |-> comments[i].user_id,
     body |-> comments[i].body, created_at |-> comments[i].created_at,
     display_name |-> JoinDisplayName(comments[i].user_id)]

PostView(i, cs) ==
    [id |-> posts[i].id, title |-> posts[i].title, body |-> posts[i].body,
     score |-> posts[i].score, created_at |-> posts[i].created_at,
     display_name |-> JoinDisplayName(posts[i].user_id),
     comments |-> [k \in 1..Len(cs) |-> CommentView(cs[k])]]

posts_api(c) ==
    /\ \E po \in PostOrders :
         \E co \in [1..Len(posts) -> UNION {CommentOrders(p) : p \in 1..Len(posts)}] :
            /\ \A p \in 1..Len(posts) : co[p] \in CommentOrders(p)
            /\ resp' = [op |-> "list", status |-> 200,
                        posts |-> [k \in 1..Len(po) |-> PostView(po[k], co[po[k]])]]
    /\ UNCHANGED <<users, posts, comments, votes, voteSeq, session, now, tx, lock>>

-----------------------------------------------------------------------------
\* rows written so far (votes: ids handed out)
Writes == Len(users) + Len(posts) + Len(comments) + voteSeq

\* one accepted text per field
OkName == << Rep("f", 3) \o Rep("9", 2) >>
OkTitle == << Rep("H", 5) >>
OkBody == << Rep("W", 5) >>
OkComment == << Rep("k", 2) >>

-----------------------------------------------------------------------------
(* POST /vote, statement by statement, on its own connection.  sqlite3 opens
   the transaction before the INSERT; the INSERT takes the database write lock,
   held until commit or until the connection is closed. *)

\* no write lock at all
LockIgnored(k) == TRUE

\* the write lock can be taken by connection k
LockFree(k) == lock = 0

InFlight == {k \in Conns : tx[k].pc # "idle"}

\* lines 419-425: the request is read and validated
vote_recv(k, c, addr, ttJ, idJ, vJ) ==
    LET target_id == IntOrZero(idJ)
        value == IntOrZero(vJ)
    IN  /\ tx[k].pc = "idle"
        /\ IF ~VoteValid(ttJ, target_id, value)
           THEN /\ resp' = [op |-> "vote", status |-> 400]
                /\ UNCHANGED tx
           ELSE /\ tx' = [tx EXCEPT ![k] =
                            [pc |-> "upsert", anon |-> VoterIdentity(c, addr),
                             target_type |-> ttJ[1], target_id |-> target_id,
                             value |-> value, view |-> {}, s |-> 0]]
                /\ UNCHANGED resp
        /\ UNCHANGED <<users, posts, comments, votes, voteSeq, session, now, lock>>

\* line 429: INSERT OR REPLACE, seen by this connection alone until commit
vote_upsert(k) ==
    /\ tx[k].pc = "upsert"
    /\ LockFree(k)
    /\ lock' = k
    /\ tx' = [tx EXCEPT ![k].pc = IF tx[k].target_type = "post" THEN "sum" ELSE "commit",
                        ![k].view = UpsertVote(votes, voteSeq, tx[k].anon, tx[k].target_type,
                                               tx[k].target_id, tx[k].value)]
    /\ UNCHANGED <<users, posts, comments, votes, voteSeq, session, now, resp>>

\* line 429 when another connection holds the lock past the timeout: the
\* exception is caught (lines 437-439), the connection is closed
vote_busy(k) ==
    /\ tx[k].pc = "upsert"
    /\ ~LockFree(k)
    /\ tx' = [tx EXCEPT ![k] = Idle]
    /\ resp' = [op |-> "vote", status |-> 500]
    /\ UNCHANGED <<users, posts, comments, votes, voteSeq, session, now, lock>>

\* line 433: SELECT SUM(value), on the same connection
vote_sum(k) ==
    /\ tx[k].pc = "sum"
    /\ tx' = [tx EXCEPT ![k].pc = "update",
                        ![k].s = SumVotes(tx[k].view, tx[k].target_type, tx[k].target_id)]
    /\ UNCHANGED <<users, posts, comments, votes, voteSeq, session, now, resp, lock>>

\* line 434: UPDATE posts SET score, pending until commit
vote_update(k) ==
    /\ tx[k].pc = "update"
    /\ tx' = [tx EXCEPT ![k].pc = "commit"]
    /\ UNCHANGED <<users, posts, comments, votes, voteSeq, session, now, resp, lock>>

\* line 435: commit writes the row and the score and releases the lock
vote_commit(k) ==
    /\ tx[k].pc = "commit"
    /\ votes' = UpsertVote(votes, voteSeq, tx[k].anon, tx[k].target_type,
                           tx[k].target_id, tx[k].value)
    /\ voteSeq' = voteSeq + 1
    /\ posts' = IF tx[k].target_type = "post"
                THEN SetScore(posts, tx[k].target_id, tx[k].s)
                ELSE posts
    /\ lock' = IF lock = k THEN 0 ELSE lock
    /\ tx' = [tx EXCEPT ![k] = Idle]
    /\ resp' = [op |-> "vote", status |-> 204]
    /\ UNCHANGED <<users, comments, session, now>>

NextConc ==
    \/ /\ Writes + Cardinality(InFlight) < MaxWrites
       /\ \E c \in Clients : create_post(c, OkTitle, OkBody)
    \/ /\ Writes + Cardinality(InFlight) < MaxWrites
       /\ \E k \in Conns, c \in Clients, a \in AddrInputs, in \in VoteInputs :
             vote_recv(k, c, a, in[1], in[2], in[3])
    \/ \E k \in Conns : vote_upsert(k)
    \/ \E k \in Conns : vote_busy(k)
    \/ \E k \in Conns : vote_sum(k)
    \/ \E k \in Conns : vote_update(k)
    \/ \E k \in Conns : vote_commit(k)

SpecConc == Init /\ [][NextConc]_vars

-----------------------------------------------------------------------------
(* Posting, commenting and listing while the clock runs *)

NextList ==
    \/ Tick
    \/ /\ Writes < MaxWrites
       /\ \E c \in Clients, t \in Tokens : signin(c, OkName, t)
    \/ \E c \in Clients : signout(c)
    \/ /\ Writes < MaxWrites
       /\ \E c \in Clients : create_post(c, OkTitle, OkBody)
    \/ /\ Writes < MaxWrites
       /\ \E c \in Clients, p \in {<<1>>, <<2>>} : create_comment(c, p, OkComment)
    \/ \E c \in Clients : posts_api(c)

SpecList == Init /\ [][NextList]_vars

-----------------------------------------------------------------------------
(* Every handler on every input, a bounded number of rows written *)

Next ==
    \/ /\ Writes < MaxWrites
       /\ \E c \in Clients, n \in NameInputs, t \in Tokens : signin(c, n, t)
    \/ \E c \in Clients : signout(c)
    \/ /\ Writes < MaxWrites
       /\ \E c \in Clients, t \in TitleInputs, b \in BodyInputs : create_post(c, t, b)
    \/ /\ Writes < MaxWrites
       /\ \E c \in Clients, p \in PostIdInputs, b \in CommentInputs : create_comment(c, p, b)
    \/ /\ Writes < MaxWrites
       /\ \E c \in Clients, a \in AddrInputs, in \in VoteInputs :
             vote(c, a, in[1], in[2], in[3])
    \/ \E c \in Clients : posts_api(c)

Spec == Init /\ [][Next]_vars

-----------------------------------------------------------------------------
(* Vocabulary of the properties *)

\* a text field that is absent, empty or all whitespace
IsBlank(j) == j = <<>> \/ \A i \in 1..Len(j[1]) : j[1][i].ch \in {" ", "\n"}

\* a numeric field that is absent or not a positive integer
NotPositive(j) == j = <<>> \/ j[1] < 1

TablesUnchanged == UNCHANGED <<users, posts, comments, votes>>

Rejected == resp'.status = 400 /\ TablesUnchanged

\* the votes recorded against post i
PostVotes(vs, i) == {r \in vs : r.target_type = "post" /\ r.target_id = i}

\* the users row bound to the session of client c, as a nullable user id
BoundUserId(c) ==
    IF session[c] = <<>> THEN <<>>
    ELSE <<CHOOSE i \in 1..Len(users) : users[i].anon_id = session[c][1]>>

-----------------------------------------------------------------------------
-----------------------------------------------------------------------------
\* C6 (as claimed): createComment with a non-blank body and a postId that is not
\* a positive integer (0 or negative) is answered 400 and stores no comment.
C6_NonPositivePostIdRejected ==
    [][ resp'.op = "comment" =>
          \A c \in Clients, p \in PostIdInputs, b \in CommentInputs :
              (create_comment(c, p, b) /\ ~IsBlank(b) /\ NotPositive(p))
                 => (resp'.status = 400 /\ comments' = comments)
      ]_vars

-----------------------------------------------------------------------------
\* the entry of a /posts response for post id i
Listed(r, i) == r.posts[CHOOSE k \in 1..Len(r.posts) : r.posts[k].id = i]

\* C4: createPost with non-blank title and body succeeds and stores a row whose
\* title and body are the inputs trimmed and then cut to 200 and 4000
\* characters, with score 0 and the user bound to the session (none for a
\* guest); rows of users never change; and every /posts response lists each
\* stored post once, with the stored title, body and score and the display name
\* of its author (absent for a guest).
C4_CreateThenList ==
    [][ /\ resp'.op = "post" =>
             \A c \in Clients, t \in TitleInputs, b \in BodyInputs :
                 (create_post(c, t, b) /\ ~IsBlank(t) /\ ~IsBlank(b)) =>
                     /\ resp'.status = 204
                     /\ Len(posts') = Len(posts) + 1
                     /\ LET new == posts'[Len(posts')]
                        IN  /\ new.id = Len(posts')
                            /\ new.title = Truncate(Strip(t[1]), 200)
                            /\ new.body = Truncate(Strip(b[1]), 4000)
                            /\ new.score = 0
                            /\ new.user_id = BoundUserId(c)
        /\ \A i \in 1..Len(users) : Len(users') >= i /\ users'[i] = users[i]
        /\ resp'.op = "list" =>
             /\ Len(resp'.posts) = Len(posts)
             /\ \A i \in 1..Len(posts) :
                 /\ \E k \in 1..Len(resp'.posts) : resp'.posts[k].id = i
                 /\ LET e == Listed(resp', i)
                    IN  /\ e.title = posts[i].title
                        /\ e.body = posts[i].body
                        /\ e.score = posts[i].score
                        /\ e.display_name =
                             IF posts[i].user_id = <<>> THEN <<>>
                             ELSE <<users[posts[i].user_id[1]].display_name>>
      ]_vars

\* a listing with the post just made by a signed-in user from a title of 202
\* and a body of 4001 characters after trimming: the title is cut after its
\* 200th character, a blank, and the display name after its 30th
C4_Witness ==
    /\ resp.op = "list"
    /\ \E k \in 1..Len(resp.posts) :
         /\ resp.posts[k].id = Len(posts)
         /\ resp.posts[k].title = <<[ch |-> "t", n |-> 199], [ch |-> " ", n |-> 1]>>
         /\ resp.posts[k].body = <<[ch |-> "W", n |-> 4000]>>
         /\ resp.posts[k].display_name = << <<[ch |-> "g", n |-> 29], [ch |-> " ", n |-> 1]>> >>
         /\ resp.posts[k].score = 0
         /\ resp.posts[k].comments = <<>>

-----------------------------------------------------------------------------
\* C9: a vote of target type 'comment' leaves every post as it was; a vote of
\* target type 'post' on id P leaves every post other than P as it was; no step
\* removes a post or changes the id, author, title, body or creation time of
\* one; and a step that changes a score is a vote on that post.
C9_VoteFrame ==
    [][ /\ Len(posts') >= Len(posts)
        /\ \A i \in 1..Len(posts) :
             /\ [posts'[i] EXCEPT !.score = 0] = [posts[i] EXCEPT !.score = 0]
             /\ posts'[i].score # posts[i].score =>
                  /\ resp'.op = "vote" /\ resp'.status = 204
                  /\ \E r \in votes' \ votes : r.target_type = "post" /\ r.target_id = i
        /\ (resp'.op = "vote" /\ votes' # votes) =>
             Cardinality({i \in 1..Len(posts) : posts'[i].score # posts[i].score}) <= 1
      ]_vars

\* two posts, the second voted down and the first still at 0
C9_Witness ==
    /\ Len(posts) = 2
    /\ posts[1].score = 0
    /\ posts[2].score = -1
    /\ resp.op = "vote" /\ resp.status = 204

-----------------------------------------------------------------------------
\* C1 (as claimed): every post's score is the sum of the values of the vote rows
\* of target type 'post' recorded against its id.
C1_ScoreIsSum ==
    \A i \in 1..Len(posts) : posts[i].score = SumValues(PostVotes(votes, i))

-----------------------------------------------------------------------------
\* C10 (as claimed): a post listed right after its creation has no comments.
C10_NewPostHasNoComments ==
    [][ (resp.op = "post" /\ resp.status = 204 /\ resp'.op = "list")
           => Listed(resp', Len(posts)).comments = <<>> ]_vars

-----------------------------------------------------------------------------
\* C3: with /vote requests served concurrently, every step that changes the
\* committed vote rows of an existing post, or its score, leaves the score
\* equal to the sum of the committed vote values for that post.
C3_ConcurrentScoreIsSum ==
    [][ \A i \in 1..Len(posts) :
          (PostVotes(votes', i) # PostVotes(votes, i) \/ posts'[i].score # posts[i].score)
             => posts'[i].score = SumValues(PostVotes(votes', i)) ]_vars

\* two requests by different identities on post 1 in flight together: one has
\* upserted and summed and is about to commit, the other waits for the lock
C3_Witness ==
    /\ Len(posts) >= 1
    /\ \E k1, k2 \in Conns :
         /\ tx[k1].pc = "commit" /\ lock = k1
         /\ tx[k1].target_type = "post" /\ tx[k1].target_id = 1 /\ tx[k1].s = 1
         /\ tx[k2].pc = "upsert"
         /\ tx[k2].target_type = "post" /\ tx[k2].target_id = 1
         /\ tx[k2].anon # tx[k1].anon

-----------------------------------------------------------------------------
\* the key of a vote row
VoteKey(r) == <<r.user_anon, r.target_type, r.target_id>>

VotesUnique == \A r1, r2 \in votes : VoteKey(r1) = VoteKey(r2) => r1 = r2

\* C2: the votes table never holds two rows for one (identity, target type,
\* target id); an accepted vote leaves exactly one row for its key, holding the
\* value just cast, leaves the rows of every other key alone, and, when the
\* target is an existing post, leaves that post's score equal to the sum of the
\* rows now recorded against it.
C2_LastVoteWins ==
    /\ []VotesUnique
    /\ [][ (resp'.op = "vote" /\ resp'.status = 204) =>
             \A c \in Clients, a \in AddrInputs, in \in VoteInputs :
                 vote(c, a, in[1], in[2], in[3]) =>
                    LET key == <<VoterIdentity(c, a), in[1][1], in[2][1]>>
                    IN  /\ \E r \in votes' : VoteKey(r) = key /\ r.value = in[3][1]
                        /\ Cardinality({r \in votes' : VoteKey(r) = key}) = 1
                        /\ {r \in votes' : VoteKey(r) # key} = {r \in votes : VoteKey(r) # key}
                        /\ (in[1][1] = "post" /\ in[2][1] <= Len(posts)) =>
                              posts'[in[2][1]].score = SumValues(PostVotes(votes', in[2][1]))
         ]_vars

\* an identity has voted twice on post 1: two ids handed out, one row, value -1,
\* and the score counts it once
C2_Witness ==
    /\ voteSeq = 2
    /\ Len(posts) = 1
    /\ votes = {[id |-> 2, user_anon |-> Anonymous, target_type |-> "post",
                 target_id |-> 1, value |-> -1]}
    /\ posts[1].score = -1

-----------------------------------------------------------------------------
\* C7 (as claimed): a /posts response lists the posts by created_at descending,
\* posts of equal created_at by id descending.
C7_NewestFirst ==
    resp.op = "list" =>
        \A i, j \in 1..Len(resp.posts) :
            i < j => \/ resp.posts[i].created_at > resp.posts[j].created_at
                     \/ /\ resp.posts[i].created_at = resp.posts[j].created_at
                        /\ resp.posts[i].id > resp.posts[j].id

====
